---- MODULE Spec2Model ----
(***************************************************************************)
(* The task enrichment backend of task_master: the task / workbench store *)
(* (services/task_service.py), the background enrichment pipeline         *)
(* (services/task_queue.py), the enrichment service and the Gemini        *)
(* gateway (services/enrichment_service.py, lib/gemini_client.py) and the *)
(* request handlers that schedule pipeline runs (api/routes/tasks.py).    *)
(*                                                                         *)
(* Every request owns one database session (lib/database.py get_db); the  *)
(* pipeline run a request schedules keeps using that session.  Sessions   *)
(* are created with expire_on_commit=False and autoflush=False, so the    *)
(* objects a session has loaded keep the attribute values of their last   *)
(* load or refresh, a SELECT does not overwrite them, and a commit writes *)
(* only the attributes whose value differs from the loaded one.  Whether  *)
(* get_db closes the session before or after the background run depends  *)
(* on the framework's version (sessionKept), as whether the database      *)
(* enforces foreign keys depends on its configuration (fkEnforced).       *)
(*                                                                         *)
(* Spec explores create, retry, delete and the pipeline runs; LaneSpec     *)
(* adds the moves to the todo list and the user's metadata corrections;   *)
(* ParseSpec, ClassifySpec, ConfigSpec and PopulateSpec call one function *)
(* of the program on each of its arguments.                               *)
(*                                                                         *)
(* Nullable values are sequences: <<>> is null, <<v>> holds v.  Texts are *)
(* sequences of tokens, " " being a whitespace token.                     *)
(***************************************************************************)
EXTENDS Integers, Sequences, FiniteSets, TLC

VARIABLES tasks, wbs, todos, runs, nextId, fkEnforced, sessionKept, last, scope,
          call, ret

vars ==
  <<tasks, wbs, todos, runs, nextId, fkEnforced, sessionKept, last, scope, call, ret>>

\* the store, the runs and the deployment
store == <<tasks, wbs, todos, runs, nextId, fkEnforced, sessionKept, last, scope>>

\* ---------------------------------------------------------------- bounds
\* tasks created and runs scheduled where runs interleave freely
NumTasks == 2
MaxRuns == 3
\* tasks created and runs scheduled where the provider's answers are many
DataTasks == 1
DataRuns == 2
\* runs scheduled where the todo list and the user's corrections take part
LaneRuns == 2

TaskIds == 1..NumTasks
RunIds == 1..MaxRuns

\* ------------------------------------------------------ program constants
\* EnrichmentService.confidence_threshold, in hundredths
ConfidenceThreshold == 70
\* GeminiClientConfig.max_retries as EnrichmentService configures it
MaxRetries == 3

Null == <<>>
Some(v) == <<v>>

\* ------------------------------------------------------------------ texts
RECURSIVE LStrip(_)
LStrip(s) == IF s # <<>> /\ Head(s) = " " THEN LStrip(Tail(s)) ELSE s

RECURSIVE RStrip(_)
RStrip(s) ==
  IF s # <<>> /\ s[Len(s)] = " " THEN RStrip(SubSeq(s, 1, Len(s) - 1)) ELSE s

\* str.strip()
Strip(s) == RStrip(LStrip(s))

Contains(msg, part) ==
  \E i \in 1..Len(msg) : i + Len(part) - 1 <= Len(msg)
                         /\ SubSeq(msg, i, i + Len(part) - 1) = part

\* the user inputs requests carry
Inputs == { <<"call", "mom">>, <<"fix", "bug">>, <<" ">> }

\* user inputs with surrounding whitespace, empty and blank ones
LaneInputs == { <<" ", "call", "mom", " ">>, <<>>, <<" ", " ">> }

\* ------------------------------------------------------------ deadlines
\* A deadline phrase, by what parse_deadline looks at: its lowercased,
\* trimmed text ("" when blank, the keyword when the text is one keyword),
\* the keywords it contains, the first "in N unit" match, the first
\* H:MM[am|pm] match and the first H[am|pm] match, and what dateutil's fuzzy
\* parser makes of it.
Phrase(name, kws, hm, ham, fuzzy) ==
  [name |-> name, kws |-> kws, inn |-> <<>>, hm |-> hm, ham |-> ham,
   fuzzy |-> fuzzy]

PhTomorrow3pm == Phrase("tomorrow at 3pm", {"tomorrow"}, <<>>, <<3, "pm">>, <<>>)
PhTomorrow2500 == Phrase("tomorrow at 25:00", {"tomorrow"}, <<25, 0, "">>, <<>>, <<>>)
PhWhenever == Phrase("whenever", {}, <<>>, <<>>, <<>>)

\* a datetime in UTC
DateTime(y, m, d, h, mi, sec) ==
  [y |-> y, m |-> m, d |-> d, hour |-> h, minute |-> mi, second |-> sec]

\* datetime.now(timezone.utc) of a run
RefNow == DateTime(2025, 1, 10, 10, 30, 15)

Returned(v) == [raised |-> FALSE, value |-> v, message |-> <<>>]
Raised(m) == [raised |-> TRUE, value |-> Null, message |-> m]

\* the proleptic Gregorian calendar of datetime
IsLeap(y) == (y % 4 = 0 /\ y % 100 # 0) \/ y % 400 = 0

DaysInMonth(y, m) ==
  IF m = 2 THEN (IF IsLeap(y) THEN 29 ELSE 28)
  ELSE IF m \in {4, 6, 9, 11} THEN 30
  ELSE 31

DaysBeforeYear(y) ==
  LET p == y - 1 IN 365 * p + (p \div 4) - (p \div 100) + (p \div 400)

RECURSIVE DaysBeforeMonth(_, _)
DaysBeforeMonth(y, m) ==
  IF m = 1 THEN 0 ELSE DaysBeforeMonth(y, m - 1) + DaysInMonth(y, m - 1)

\* date.toordinal(): 1 is 0001-01-01
ToOrdinal(dt) == DaysBeforeYear(dt.y) + DaysBeforeMonth(dt.y, dt.m) + dt.d

\* date.max.toordinal(): 9999-12-31
MaxOrdinal == DaysBeforeYear(10000)

\* date.weekday(): 0 is Monday
Weekday(dt) == (ToOrdinal(dt) + 6) % 7

\* the date n days from dt, within the calendar
RECURSIVE AddDays(_, _)
AddDays(dt, n) ==
  IF n >= 0
  THEN IF dt.d + n <= DaysInMonth(dt.y, dt.m) THEN [dt EXCEPT !.d = dt.d + n]
       ELSE AddDays([dt EXCEPT !.y = IF dt.m = 12 THEN dt.y + 1 ELSE dt.y,
                               !.m = IF dt.m = 12 THEN 1 ELSE dt.m + 1,
                               !.d = 1],
                    n - (DaysInMonth(dt.y, dt.m) - dt.d + 1))
  ELSE IF dt.d + n >= 1 THEN [dt EXCEPT !.d = dt.d + n]
       ELSE LET py == IF dt.m = 1 THEN dt.y - 1 ELSE dt.y
                pm == IF dt.m = 1 THEN 12 ELSE dt.m - 1
            IN AddDays([dt EXCEPT !.y = py, !.m = pm, !.d = DaysInMonth(py, pm)],
                       n + dt.d)

\* datetime + timedelta(days=n): OverflowError outside 0001-01-01..9999-12-31
PlusDays(dt, n) ==
  IF ToOrdinal(dt) + n > MaxOrdinal \/ ToOrdinal(dt) + n < 1
  THEN Raised(<<"date value out of range">>)
  ELSE Returned(Some(AddDays(dt, n)))

\* datetime + timedelta(hours=n)
PlusHours(dt, n) ==
  LET total == dt.hour + n
      shifted == PlusDays(dt, total \div 24)
  IN IF shifted.raised THEN shifted
     ELSE Returned(Some([shifted.value[1] EXCEPT !.hour = total % 24]))

\* datetime + relativedelta(months=n): the day is cut to the month's length,
\* ValueError past year 9999
PlusMonths(dt, n) ==
  LET total == (dt.m - 1) + n
      y == dt.y + (total \div 12)
      m == (total % 12) + 1
      monthLen == DaysInMonth(y, m)
  IN IF y > 9999 THEN Raised(<<"year is out of range">>)
     ELSE Returned(Some([dt EXCEPT !.y = y, !.m = m,
                                     !.d = IF dt.d > monthLen THEN monthLen
                                            ELSE dt.d]))

\* datetime.replace(hour, minute, second): ValueError outside 0..23 / 0..59
Replace(base, h, m, s) ==
  IF h > 23 THEN Raised(<<"hour must be in 0..23">>)
  ELSE IF m > 59 THEN Raised(<<"minute must be in 0..59">>)
  ELSE Returned(Some([base EXCEPT !.hour = h, !.minute = m, !.second = s]))

Hour24(h, mer) ==
  IF mer = "pm" /\ h < 12 THEN h + 12
  ELSE IF mer = "am" /\ h = 12 THEN 0
  ELSE h

ApplyTimeIfPresent(ph, base) ==
  IF ph.hm # <<>> THEN Replace(base, Hour24(ph.hm[1], ph.hm[3]), ph.hm[2], 0)
  ELSE IF ph.ham # <<>> THEN Replace(base, Hour24(ph.ham[1], ph.ham[2]), 0, 0)
  ELSE Replace(base, 23, 59, 59)

\* return _apply_time_if_present(text, base), where computing base may raise
ApplyTimeTo(ph, base) ==
  IF base.raised THEN base ELSE ApplyTimeIfPresent(ph, base.value[1])

Weekdays ==
  <<"monday", "tuesday", "wednesday", "thursday", "friday", "saturday", "sunday">>

\* the first weekday, in the order of the list, whose name the text contains
FirstWeekday(ph) ==
  CHOOSE i \in 0..6 : /\ Weekdays[i + 1] \in ph.kws
                      /\ \A j \in 0..(i - 1) : Weekdays[j + 1] \notin ph.kws

ParseRelativeDate(ph, ref) ==
  IF ph.name \in {"today", "now"} THEN Returned(Some(ref))
  ELSE IF "tomorrow" \in ph.kws THEN ApplyTimeTo(ph, PlusDays(ref, 1))
  ELSE IF "yesterday" \in ph.kws THEN ApplyTimeTo(ph, PlusDays(ref, -1))
  ELSE IF "next week" \in ph.kws THEN ApplyTimeTo(ph, PlusDays(ref, 7))
  ELSE IF "this week" \in ph.kws THEN ApplyTimeTo(ph, PlusDays(ref, 0))
  ELSE IF "next month" \in ph.kws THEN ApplyTimeTo(ph, PlusMonths(ref, 1))
  ELSE IF ph.inn # <<>>
  THEN LET count == ph.inn[1]
           unit == ph.inn[2]
       IN ApplyTimeTo(ph, IF unit = "day" THEN PlusDays(ref, count)
                          ELSE IF unit = "week" THEN PlusDays(ref, 7 * count)
                          ELSE IF unit = "month" THEN PlusMonths(ref, count)
                          ELSE PlusHours(ref, count))
  ELSE IF \E i \in 1..7 : Weekdays[i] \in ph.kws
  THEN LET ahead == (FirstWeekday(ph) - Weekday(ref)) % 7
       IN ApplyTimeTo(ph, PlusDays(ref, IF ahead = 0 /\ "next" \in ph.kws
                                        THEN 7 ELSE ahead))
  ELSE IF "end of day" \in ph.kws \/ "eod" \in ph.kws
  THEN Replace(ref, 23, 59, 59)
  ELSE IF "end of week" \in ph.kws \/ "eow" \in ph.kws
  THEN LET base == PlusDays(ref, (4 - Weekday(ref)) % 7)
       IN IF base.raised THEN base ELSE Replace(base.value[1], 23, 59, 59)
  ELSE IF "end of month" \in ph.kws \/ "eom" \in ph.kws
  THEN LET nextMonth == PlusMonths(ref, 1)
       IN IF nextMonth.raised THEN nextMonth
          ELSE LET lastDay == PlusDays([nextMonth.value[1] EXCEPT !.d = 1], -1)
               IN IF lastDay.raised THEN lastDay
                  ELSE Replace(lastDay.value[1], 23, 59, 59)
  ELSE Returned(Null)

\* parse_deadline: a blank text is None; an exception of _parse_relative_date
\* is not caught; dateutil's ValueError, TypeError and OverflowError are
ParseDeadline(ph, ref) ==
  IF ph.name = "" THEN Returned(Null)
  ELSE LET rel == ParseRelativeDate(ph, ref) IN
       IF rel.raised \/ rel.value # Null THEN rel
       ELSE Returned(ph.fuzzy)

\* EnrichmentService.parse_deadline_from_text; the phrase is an optional
ParseDeadlineFromText(optPhrase, ref) ==
  IF optPhrase = Null THEN Returned(Null) ELSE ParseDeadline(optPhrase[1], ref)

\* ---------------------------------------------------------------- gateway
\* An error of the provider, by the markers its lowercased text contains.
Signal(text, has) == [text |-> text, has |-> has]

SigBoom == Signal(<<"boom">>, {})
SigTimeout == Signal(<<"request", "timeout">>, {"timeout"})

\* what the provider can answer to generate_content for a text
ProviderErrors == { SigBoom, SigTimeout }

EnrichReplies(text) ==
  { <<"Enriched:">> \o text, <<" ", "Enriched:">> \o text \o <<" ">>, <<>> }

GeminiAPIError(message, status, retryAfter, retryable) ==
  [message |-> message, status_code |-> status, retry_after |-> retryAfter,
   is_retryable |-> retryable]

\* a classification that looks for a rate limit before an authentication failure
HandleApiErrorRateFirst(sig) ==
  IF sig.has \cap {"rate limit", "quota"} # {}
  THEN GeminiAPIError(<<"Rate limit exceeded. Task will retry automatically.">>,
                      Some(429), Some(60), TRUE)
  ELSE IF sig.has \cap {"auth", "unauthorized", "api key"} # {}
  THEN GeminiAPIError(<<"Gemini API authentication failed. Please check your API key.">>,
                      Some(401), Null, FALSE)
  ELSE IF sig.has \cap {"server error", "503", "unavailable"} # {}
  THEN GeminiAPIError(<<"Gemini service temporarily unavailable. Retrying...">>,
                      Some(IF "500" \in sig.has THEN 500 ELSE 503), Null, TRUE)
  ELSE IF "timeout" \in sig.has
  THEN GeminiAPIError(<<"Gemini API timeout. Task will retry.">>, Null, Null, TRUE)
  ELSE GeminiAPIError(<<"Enrichment failed: ">> \o sig.text, Null, Null, FALSE)

\* GeminiClient._handle_api_error
HandleApiError(sig) ==
  IF sig.has \cap {"auth", "unauthorized", "api key"} # {}
  THEN GeminiAPIError(<<"Gemini API authentication failed. Please check your API key.">>,
                      Some(401), Null, FALSE)
  ELSE IF sig.has \cap {"rate limit", "quota"} # {}
  THEN GeminiAPIError(<<"Rate limit exceeded. Task will retry automatically.">>,
                      Some(429), Some(60), TRUE)
  ELSE IF sig.has \cap {"server error", "503", "unavailable"} # {}
  THEN GeminiAPIError(<<"Gemini service temporarily unavailable. Retrying...">>,
                      Some(IF "500" \in sig.has THEN 500 ELSE 503), Null, TRUE)
  ELSE IF "timeout" \in sig.has
  THEN GeminiAPIError(<<"Gemini API timeout. Task will retry.">>, Null, Null, TRUE)
  ELSE GeminiAPIError(<<"Enrichment failed: ">> \o sig.text, Null, Null, FALSE)

\* GeminiClientConfig: the key as its characters, the timeout in tenths of a
\* second
GeminiClientConfig(apiKey, model, timeout, maxRetries) ==
  [api_key |-> apiKey, model |-> model, timeout |-> timeout,
   max_retries |-> maxRetries]

\* str.startswith
StartsWith(str, prefix) ==
  Len(str) >= Len(prefix) /\ SubSeq(str, 1, Len(prefix)) = prefix

SupportedModels ==
  {"gemini-2.5-flash", "gemini-2.5-pro", "gemini-2.0-flash-exp",
   "gemini-1.5-flash", "gemini-1.5-pro"}

\* a validation whose bounds are exclusive
ValidateConfigExclusive(config) ==
  IF config.api_key = <<>>
  THEN Raised(<<"GEMINI_API_KEY environment variable is required.">>)
  ELSE IF ~StartsWith(config.api_key, <<"A", "I", "z", "a">>)
  THEN Raised(<<"Invalid Gemini API key format (must start with 'AIza')">>)
  ELSE IF config.model \notin SupportedModels
  THEN Raised(<<"Unsupported model">>)
  ELSE IF ~(50 < config.timeout /\ config.timeout < 1200)
  THEN Raised(<<"Timeout must be between 5 and 120 seconds">>)
  ELSE IF ~(0 < config.max_retries /\ config.max_retries < 10)
  THEN Raised(<<"max_retries must be between 0 and 10">>)
  ELSE Returned(Null)

\* validate_config, which __post_init__ calls on the new configuration
ValidateConfig(config) ==
  IF config.api_key = <<>>
  THEN Raised(<<"GEMINI_API_KEY environment variable is required.">>)
  ELSE IF ~StartsWith(config.api_key, <<"A", "I", "z", "a">>)
  THEN Raised(<<"Invalid Gemini API key format (must start with 'AIza')">>)
  ELSE IF config.model \notin SupportedModels
  THEN Raised(<<"Unsupported model">>)
  ELSE IF ~(50 <= config.timeout /\ config.timeout <= 1200)
  THEN Raised(<<"Timeout must be between 5 and 120 seconds">>)
  ELSE IF ~(0 <= config.max_retries /\ config.max_retries <= 10)
  THEN Raised(<<"max_retries must be between 0 and 10">>)
  ELSE Returned(Null)

\* The outcome of a call: a value, or an exception with its message.  For a
\* GeminiAPIError the record is kept in gateway.
Ok(v) == [ok |-> TRUE, value |-> Some(v), message |-> <<>>, gateway |-> Null]
Fail(m, g) == [ok |-> FALSE, value |-> Null, message |-> m, gateway |-> g]

\* GeminiClient.enrich_task from the provider's answer on: the provider is
\* called once, an empty answer is a ValueError, and every exception goes
\* through _handle_api_error.
EnrichTaskResult(answer) ==
  IF answer.kind = "error"
  THEN LET e == HandleApiError(answer.sig) IN Fail(e.message, Some(e))
  ELSE IF answer.text = <<>>
  THEN LET e == HandleApiError(Signal(<<"Gemini returned empty response">>, {}))
       IN Fail(e.message, Some(e))
  ELSE Ok(Strip(answer.text))

\* an enrich that answers an exception of the gateway with an empty text
ServiceEnrichResultSwallows(answer) ==
  LET res == EnrichTaskResult(answer) IN
  IF res.ok THEN Ok(Strip(res.value[1])) ELSE Ok(<<>>)

\* EnrichmentService.enrich from the provider's answer on
ServiceEnrichResult(answer) ==
  LET res == EnrichTaskResult(answer) IN
  IF res.ok THEN Ok(Strip(res.value[1]))
  ELSE Fail(<<"Enrichment failed: ">> \o res.message, res.gateway)

\* what the provider can answer to the enrich call for a text
EnrichAnswers(text) ==
  { [kind |-> "text", text |-> t, sig |-> SigBoom] : t \in EnrichReplies(text) }
  \cup { [kind |-> "error", text |-> <<>>, sig |-> s] : s \in ProviderErrors }

\* ------------------------------------------------------------- extraction
\* MetadataExtractionResponse
Response(pr, prC, pe, peC, dl, dlC, tt, ttC, pi, piC, ef, efC, dp, dpC, tg, tgC) ==
  [project |-> pr, project_confidence |-> prC,
   persons |-> pe, persons_confidence |-> peC,
   deadline |-> dl, deadline_confidence |-> dlC,
   task_type |-> tt, task_type_confidence |-> ttC,
   priority |-> pi, priority_confidence |-> piC,
   effort_estimate |-> ef, effort_confidence |-> efC,
   dependencies |-> dp, dependencies_confidence |-> dpC,
   tags |-> tg, tags_confidence |-> tgC,
   chain_of_thought |-> Some("because")]

\* every field confident, a deadline that parses
RespHigh ==
  Response(Some("ProjectX"), 90, <<"Sarah Johnson">>, 90, Some(PhTomorrow3pm), 90,
           Some("call"), 90, Some("urgent"), 90, Some(30), 90, <<"spec">>, 90,
           <<"bug">>, 90)

\* no field confident, no project
RespLow ==
  Response(Null, 60, <<>>, 60, Some(PhWhenever), 60, Some("other"), 60,
           Some("normal"), 60, Null, 60, <<>>, 60, <<>>, 60)

\* confidences on the threshold, a deadline whose time of day is out of range
RespBadTime ==
  Response(Some("ProjectY"), 70, <<"Tom">>, 70, Some(PhTomorrow2500), 70,
           Some("meeting"), 70, Some("high"), 70, Some(60), 70, <<>>, 70,
           <<"ops">>, 70)

\* a confident deadline that no parser understands, the rest mixed
RespMixed ==
  Response(Some("ProjectZ"), 69, <<"Ann">>, 70, Some(PhWhenever), 95,
           Some("email"), 69, Some("low"), 70, Some(15), 69, <<"spec">>, 70,
           <<>>, 69)

\* a confident absence of a project, a deadline whose time is out of range
RespNoProject ==
  Response(Null, 90, <<>>, 60, Some(PhTomorrow2500), 90, Some("other"), 60,
           Some("normal"), 60, Null, 60, <<>>, 60, <<>>, 60)

\* a confident absence of a deadline
RespNoDeadline ==
  Response(Some("ProjectX"), 90, <<>>, 60, Null, 90, Some("call"), 60,
           Some("normal"), 60, Null, 60, <<>>, 60, <<>>, 60)

ExtractResponses ==
  { RespHigh, RespLow, RespBadTime, RespMixed, RespNoProject, RespNoDeadline }

\* what the provider can answer to the extract call
ExtractAnswers ==
  { [kind |-> "json", resp |-> x, sig |-> SigBoom] : x \in ExtractResponses }
  \cup { [kind |-> "malformed", resp |-> RespLow, sig |-> SigBoom] }
  \cup { [kind |-> "error", resp |-> RespLow, sig |-> s] : s \in ProviderErrors }

\* GeminiClient.extract_metadata from the provider's answer on
ExtractMetadataResult(answer) ==
  IF answer.kind = "error"
  THEN LET e == HandleApiError(answer.sig) IN Fail(e.message, Some(e))
  ELSE IF answer.kind = "malformed"
  THEN LET e == HandleApiError(Signal(<<"Expecting value">>, {}))
       IN Fail(e.message, Some(e))
  ELSE Ok(answer.resp)

\* EnrichmentService.extract_metadata from the provider's answer on
ServiceExtractResult(answer) ==
  LET res == ExtractMetadataResult(answer) IN
  IF res.ok THEN res
  ELSE Fail(<<"Metadata extraction failed: ">> \o res.message, res.gateway)

\* EnrichmentService.should_populate_field
ShouldPopulateField(confidence) == confidence >= ConfidenceThreshold

\* EnrichmentService.requires_attention
RequiresAttention(resp) ==
  resp.project = Null \/ resp.project = Some("")
  \/ resp.project_confidence < ConfidenceThreshold

\* json.dumps of a list, and of the suggestions object
JsonDumps(v) == <<"json", v>>

\* EnrichmentService.serialize_metadata_suggestions
SerializeMetadataSuggestions(resp) ==
  JsonDumps([project |-> resp.project,
             project_confidence |-> resp.project_confidence,
             persons |-> resp.persons,
             persons_confidence |-> resp.persons_confidence,
             deadline |-> resp.deadline,
             deadline_confidence |-> resp.deadline_confidence,
             task_type |-> resp.task_type,
             task_type_confidence |-> resp.task_type_confidence,
             priority |-> resp.priority,
             priority_confidence |-> resp.priority_confidence,
             effort_estimate |-> resp.effort_estimate,
             effort_confidence |-> resp.effort_confidence,
             dependencies |-> resp.dependencies,
             dependencies_confidence |-> resp.dependencies_confidence,
             tags |-> resp.tags,
             tags_confidence |-> resp.tags_confidence,
             chain_of_thought |-> resp.chain_of_thought])

\* --------------------------------------------------------------- rows
\* a task that stores its input trimmed
NewTaskStripped(userInput) ==
  [user_input |-> Strip(userInput), created_at |-> Null, enriched_text |-> Null,
   project |-> Null, persons |-> Null, task_type |-> Null, priority |-> Null,
   deadline_text |-> Null, deadline_parsed |-> Null, effort_estimate |-> Null,
   dependencies |-> Null, tags |-> Null, extracted_at |-> Null,
   requires_attention |-> FALSE]

\* Task(user_input=...) as the tasks table stores it
NewTask(userInput) ==
  [user_input |-> userInput, created_at |-> Null, enriched_text |-> Null,
   project |-> Null,
   persons |-> Null, task_type |-> Null, priority |-> Null,
   deadline_text |-> Null, deadline_parsed |-> Null, effort_estimate |-> Null,
   dependencies |-> Null, tags |-> Null, extracted_at |-> Null,
   requires_attention |-> FALSE]

\* the INSERT of a task applies the column defaults: created_at is the
\* instant of the insert, here the number of the creation
Inserted(task, now) == [task EXCEPT !.created_at = Some(now)]

\* Workbench(task_id=..., enrichment_status=PENDING)
NewWorkbench ==
  [enrichment_status |-> "pending", error_message |-> Null,
   metadata_suggestions |-> Null, moved_to_todos_at |-> Null]

\* Todo(task_id=..., status=TodoStatus.OPEN, position=position)
NewTodo(position) == [status |-> "open", position |-> position]

MetadataFields ==
  {"project", "persons", "task_type", "priority", "deadline_text",
   "deadline_parsed", "effort_estimate", "dependencies", "tags"}

\* The UPDATE a flush emits for one object: the attributes whose value
\* differs from the loaded one, written over the stored row.
FlushRow(row, current, loaded) ==
  [a \in DOMAIN row |-> IF current[a] # loaded[a] THEN current[a] ELSE row[a]]

\* lines 56-97 of enrich_task_background on the session's task and workbench
\* objects: the objects as the assignments leave them, and the exception of
\* parse_deadline_from_text if it raises, after which the later assignments
\* have not happened.
PopulateFields(task, wb, resp, now) ==
  LET wb1 == [wb EXCEPT !.metadata_suggestions =
                           Some(SerializeMetadataSuggestions(resp))]
      t1 == [task EXCEPT
               !.project = IF ShouldPopulateField(resp.project_confidence)
                           THEN resp.project ELSE @,
               !.persons = IF ShouldPopulateField(resp.persons_confidence)
                           THEN Some(JsonDumps(resp.persons)) ELSE @,
               !.task_type = IF ShouldPopulateField(resp.task_type_confidence)
                             THEN resp.task_type ELSE @,
               !.priority = IF ShouldPopulateField(resp.priority_confidence)
                            THEN resp.priority ELSE @,
               !.deadline_text = IF ShouldPopulateField(resp.deadline_confidence)
                                 THEN resp.deadline ELSE @]
      parses == ShouldPopulateField(resp.deadline_confidence)
                /\ resp.deadline # Null
      parsed == IF parses THEN ParseDeadlineFromText(resp.deadline, RefNow)
                ELSE Returned(Null)
      t2 == [t1 EXCEPT
               !.deadline_parsed = IF parses THEN parsed.value ELSE @,
               !.effort_estimate = IF ShouldPopulateField(resp.effort_confidence)
                                   THEN resp.effort_estimate ELSE @,
               !.dependencies = IF ShouldPopulateField(resp.dependencies_confidence)
                                THEN Some(JsonDumps(resp.dependencies)) ELSE @,
               !.tags = IF ShouldPopulateField(resp.tags_confidence)
                        THEN Some(JsonDumps(resp.tags)) ELSE @,
               !.extracted_at = Some(now),
               !.requires_attention = RequiresAttention(resp)]
  IN IF parsed.raised
     THEN [raised |-> TRUE, message |-> parsed.message, task |-> t1, wb |-> wb1]
     ELSE [raised |-> FALSE, message |-> <<>>, task |-> t2, wb |-> wb1]

\* ------------------------------------------------------------- the store
\* get_by_id / get_workbench_entry raise when the SELECT finds no row
GetByIdRaises(t) == t \notin DOMAIN tasks

GetWorkbenchEntryRaises(t) == t \notin DOMAIN wbs

NotFoundMessage(t) ==
  IF GetByIdRaises(t) THEN <<"Task", "not found">>
  ELSE <<"Workbench entry for task", "not found">>

IsNotFound(message) == Contains(message, <<"not found">>)

\* update_enrichment loads the task, then the workbench entry
UpdateEnrichmentRaises(t) == GetByIdRaises(t) \/ GetWorkbenchEntryRaises(t)

\* the UPDATE of a flush on a table keyed by task id
FlushTable(table, t, current, loaded) ==
  IF t \in DOMAIN table
  THEN [table EXCEPT ![t] = FlushRow(@, current, loaded)]
  ELSE table

\* -------------------------------------------------------------- runs
\* A pipeline run: its task id, its place in enrich_task_background, the
\* task and workbench objects of its session (ct, cw) with the values they
\* were loaded with (bt, bw), its locals (enriched_text, metadata_response,
\* the caught exception's message), and what the run has seen: the error
\* the gateway raised, the number of provider calls of the last gateway
\* call, and the task row as it was stored when the run began.
UnusedRun ==
  [task |-> 0, pc |-> "unused", ct |-> NewTask(<<>>), bt |-> NewTask(<<>>),
   cw |-> NewWorkbench, bw |-> NewWorkbench, enriched |-> Null, resp |-> Null,
   err |-> <<>>, gateway |-> Null, attempts |-> 0, pre |-> NewTask(<<>>)]

\* background_tasks.add_task(enrich_task_background, task.id, db, ...): the
\* run gets the request's session.  Where the framework runs the background
\* task before get_db closes the session, the session still holds the rows
\* the request refreshed; where get_db closes it first, it holds nothing.
ScheduledRun(t, taskRow, wbRow) ==
  IF sessionKept
  THEN [UnusedRun EXCEPT !.task = t, !.pc = "scheduled", !.ct = taskRow,
                         !.bt = taskRow, !.cw = wbRow, !.bw = wbRow]
  ELSE [UnusedRun EXCEPT !.task = t, !.pc = "scheduled"]

\* lines 38-39: get_by_id and get_workbench_entry give the objects the
\* session holds, and load the stored rows into a session that holds none
LoadedRun(run) ==
  IF sessionKept \/ run.task \notin DOMAIN tasks \/ run.task \notin DOMAIN wbs
  THEN run
  ELSE [run EXCEPT !.ct = tasks[run.task], !.bt = tasks[run.task],
                   !.cw = wbs[run.task], !.bw = wbs[run.task]]

\* a run that has returned or raised: its session is gone
EndedRun(run, pc, message, gw) ==
  [UnusedRun EXCEPT !.task = run.task, !.pc = pc, !.err = message,
                    !.gateway = gw, !.attempts = run.attempts,
                    !.enriched = run.enriched, !.resp = run.resp]

FreeRuns == { r \in RunIds : runs[r].pc = "unused" }

NextRun == CHOOSE r \in FreeRuns : \A q \in FreeRuns : r <= q

Terminal == {"completed", "failed", "raised"}

InFlight == { r \in RunIds : runs[r].pc \notin Terminal \cup {"unused"} }

Outcome(op, t, result) == [op |-> op, task |-> t, result |-> result]

NoRequest == Outcome("none", 0, "ok")

\* ------------------------------------------------- what is explored
\* "race": runs of the same and of different tasks interleave freely and
\* the provider's answers are few; "data": the provider's answers are
\* many and a request that schedules a run waits for the runs in flight;
\* "rerun": the runs of a task interleave freely and the extraction answers
\* differ from run to run, with no task deleted.  "lanes" is the scope of
\* LaneSpec: the runs of a task come one after the other and interleave
\* with the moves to the todo list and the user's metadata corrections.
Scopes == {"race", "data", "rerun"}

TaskLimit == IF scope = "race" THEN NumTasks ELSE DataTasks

MaySchedule ==
  /\ FreeRuns # {}
  /\ scope = "data" => InFlight = {} /\ Cardinality(RunIds \ FreeRuns) < DataRuns
  /\ scope = "lanes" => InFlight = {} /\ Cardinality(RunIds \ FreeRuns) < LaneRuns

MayMove == scope = "lanes"

MayUpdate == scope = "lanes"

MayDelete == scope # "rerun"

ScopeInputs ==
  IF scope \in {"race", "rerun"}
  THEN { IF nextId % 2 = 1 THEN <<"call", "mom">> ELSE <<"fix", "bug">> }
  ELSE IF scope = "lanes" THEN LaneInputs
  ELSE Inputs

ScopeEnrichAnswers(text) ==
  IF scope \in {"race", "lanes"}
  THEN { a \in EnrichAnswers(text) :
           \/ a.kind = "text" /\ a.text = <<"Enriched:">> \o text
           \/ a.kind = "error" /\ a.sig = SigBoom }
  ELSE IF scope = "rerun"
  THEN { a \in EnrichAnswers(text) :
           a.kind = "text" /\ a.text = <<"Enriched:">> \o text }
  ELSE EnrichAnswers(text)

ScopeExtractAnswers ==
  IF scope = "race"
  THEN { a \in ExtractAnswers : a.kind = "json" /\ a.resp \in {RespHigh, RespBadTime} }
  ELSE IF scope = "rerun"
  THEN { a \in ExtractAnswers :
           a.kind = "json" /\ a.resp \in {RespHigh, RespLow, RespNoProject} }
  ELSE IF scope = "lanes"
  THEN { a \in ExtractAnswers : a.kind = "json" /\ a.resp \in {RespHigh, RespLow} }
  ELSE ExtractAnswers

Init ==
  /\ tasks = <<>>
  /\ wbs = <<>>
  /\ todos = <<>>
  /\ call = Null
  /\ ret = Null
  /\ runs = [r \in RunIds |-> UnusedRun]
  /\ nextId = 1
  /\ scope \in Scopes
  /\ fkEnforced \in IF MayDelete THEN BOOLEAN ELSE {TRUE}
  /\ sessionKept \in BOOLEAN
  /\ last = NoRequest

\* ------------------------------------------------------------ requests
\* POST /tasks: TaskService.create, then the run is scheduled
CreateTask(userInput) ==
  IF userInput = <<>> \/ Strip(userInput) = <<>>
  THEN /\ last' = Outcome("create", 0, "validation_error")
       /\ UNCHANGED <<tasks, wbs, runs, nextId, fkEnforced, sessionKept, scope, todos, call, ret>>
  ELSE /\ nextId <= TaskLimit
       /\ MaySchedule
       /\ tasks' = tasks @@ (nextId :> Inserted(NewTask(userInput), nextId))
       /\ wbs' = wbs @@ (nextId :> NewWorkbench)
       /\ runs' = [runs EXCEPT ![NextRun] =
                     ScheduledRun(nextId, Inserted(NewTask(userInput), nextId),
                                  NewWorkbench)]
       /\ nextId' = nextId + 1
       /\ last' = Outcome("create", nextId, "ok")
       /\ UNCHANGED <<fkEnforced, sessionKept, scope, todos, call, ret>>

\* a retry that also forgets the suggestions of the last extraction
RetriedWorkbenchForgets(wb) ==
  [wb EXCEPT !.enrichment_status = "pending", !.error_message = Null,
             !.metadata_suggestions = Null]

\* a retry that resets the status only
RetriedWorkbenchKeepsError(wb) == [wb EXCEPT !.enrichment_status = "pending"]

\* TaskService.retry_task on the stored workbench row
RetriedWorkbench(wb) ==
  [wb EXCEPT !.enrichment_status = "pending", !.error_message = Null]

\* POST /tasks/{id}/retry: TaskService.retry_task, then a run is scheduled
RetryTask(t) ==
  IF UpdateEnrichmentRaises(t)
  THEN /\ last' = Outcome("retry", t, "not_found")
       /\ UNCHANGED <<tasks, wbs, runs, nextId, fkEnforced, sessionKept, scope, todos, call, ret>>
  ELSE /\ MaySchedule
       /\ wbs' = [wbs EXCEPT ![t] = RetriedWorkbench(@)]
       /\ runs' = [runs EXCEPT ![NextRun] =
                     ScheduledRun(t, tasks[t], RetriedWorkbench(wbs[t]))]
       /\ last' = Outcome("retry", t, "ok")
       /\ UNCHANGED <<tasks, nextId, fkEnforced, sessionKept, scope, todos, call, ret>>

Without(table, t) == [i \in DOMAIN table \ {t} |-> table[i]]

\* DELETE /tasks/{id}: TaskService.delete removes the tasks row; the
\* workbench row and the todos row go with it only where the database
\* enforces the ON DELETE CASCADE foreign keys
DeleteTask(t) ==
  /\ MayDelete
  /\ IF GetByIdRaises(t)
     THEN /\ last' = Outcome("delete", t, "not_found")
          /\ UNCHANGED <<tasks, wbs, runs, nextId, fkEnforced, sessionKept, scope, todos, call, ret>>
     ELSE /\ tasks' = Without(tasks, t)
          /\ wbs' = IF fkEnforced THEN Without(wbs, t) ELSE wbs
          /\ todos' = IF fkEnforced THEN Without(todos, t) ELSE todos
          /\ last' = Outcome("delete", t, "ok")
          /\ UNCHANGED <<runs, nextId, fkEnforced, sessionKept, scope, call, ret>>

\* the instants a request can read from the clock
Instants == {1, 2}

\* the positions move_to_todos is called with; the route passes none
Positions == { Null, Some(1) }

\* a check that never finds a task moved
AlreadyMovedNever(wb) == FALSE

\* line 269: workbench.moved_to_todos_at is not None
AlreadyMoved(wb) == wb.moved_to_todos_at # Null

\* POST /tasks/{id}/move-to-todos: TaskService.move_to_todos.  The todos
\* table has a unique task_id: an INSERT for a task that has a row fails
\* and the session's changes are not committed.
MoveToTodos(t, position, now) ==
  /\ MayMove
  /\ IF UpdateEnrichmentRaises(t)
     THEN /\ last' = Outcome("move", t, "not_found")
          /\ UNCHANGED <<wbs, todos>>
     ELSE IF AlreadyMoved(wbs[t])
     THEN /\ last' = Outcome("move", t, "already_moved")
          /\ UNCHANGED <<wbs, todos>>
     ELSE IF t \in DOMAIN todos
     THEN /\ last' = Outcome("move", t, "error")
          /\ UNCHANGED <<wbs, todos>>
     ELSE /\ wbs' = [wbs EXCEPT ![t].moved_to_todos_at = Some(now)]
          /\ todos' = todos @@ (t :> NewTodo(position))
          /\ last' = Outcome("move", t, "ok")
  /\ UNCHANGED <<tasks, runs, nextId, fkEnforced, sessionKept, scope, call, ret>>

\* TaskMetadataUpdate as the route receives it
MetadataUpdate(pr, pe, tt, pi, dt, dp, ef, de, tg) ==
  [project |-> pr, persons |-> pe, task_type |-> tt, priority |-> pi,
   deadline_text |-> dt, deadline_parsed |-> dp, effort_estimate |-> ef,
   dependencies |-> de, tags |-> tg]

UpdNothing == MetadataUpdate(Null, Null, Null, Null, Null, Null, Null, Null, Null)

UpdProject ==
  MetadataUpdate(Some("Manual"), Null, Null, Null, Null, Null, Null, Null, Null)

UpdAll ==
  MetadataUpdate(Some("Manual"), Some(<<"Ann">>), Some("review"), Some("low"),
                 Some(PhWhenever), Some(AddDays(RefNow, 2)), Some(45),
                 Some(<<>>), Some(<<"home">>))

MetadataUpdates == { UpdNothing, UpdProject, UpdAll }

\* a correction that writes every field of the request, null or not
UpdatedMetadataOverwrites(task, upd) ==
  [a \in DOMAIN task |->
     IF a \in {"persons", "dependencies", "tags"}
     THEN IF upd[a] = Null THEN Null ELSE Some(JsonDumps(upd[a][1]))
     ELSE IF a \in MetadataFields THEN upd[a]
     ELSE IF a = "requires_attention" THEN FALSE
     ELSE task[a]]

\* lines 604-632 of update_task_metadata on the loaded task
UpdatedMetadata(task, upd) ==
  [a \in DOMAIN task |->
     IF a \in MetadataFields /\ upd[a] # Null
     THEN IF a \in {"persons", "dependencies", "tags"}
          THEN Some(JsonDumps(upd[a][1]))
          ELSE upd[a]
     ELSE IF a = "requires_attention" THEN FALSE
     ELSE task[a]]

\* PATCH /tasks/{id}/metadata: update_task_metadata
UpdateTaskMetadata(t, upd) ==
  /\ MayUpdate
  /\ IF GetByIdRaises(t)
     THEN /\ last' = Outcome("update", t, "not_found")
          /\ UNCHANGED tasks
     ELSE /\ tasks' = FlushTable(tasks, t, UpdatedMetadata(tasks[t], upd), tasks[t])
          /\ last' = Outcome("update", t, "ok")
  /\ UNCHANGED <<wbs, todos, runs, nextId, fkEnforced, sessionKept, scope, call, ret>>

\* ----------------------------------------------------- the pipeline run
\* A step of a run is the code between two suspensions that let another
\* request or run act: it ends with a commit or with the call of the
\* provider.
SetRun(r, run) == runs' = [runs EXCEPT ![r] = run]

\* a fixed text in place of the exception's own
StrExceptionGeneric(message) == <<"Enrichment failed">>

\* error_message = str(e)
StrException(message) == message

\* an update_enrichment that puts the enriched text in place of the input
UpdateEnrichmentOverInput(run, status, enrichedText, errorMessage) ==
  LET t == run.task
      ct1 == [run.ct EXCEPT !.enriched_text = enrichedText,
                            !.user_input = IF enrichedText # Null
                                           THEN enrichedText[1] ELSE @]
      cw1 == [run.cw EXCEPT !.enrichment_status = status,
                            !.error_message = errorMessage]
      tasks1 == FlushTable(tasks, t, ct1, run.bt)
      wbs1 == FlushTable(wbs, t, cw1, run.bw)
      taskRow == IF t \in DOMAIN tasks1 THEN tasks1[t] ELSE ct1
      wbRow == IF t \in DOMAIN wbs1 THEN wbs1[t] ELSE cw1
  IN [tasks |-> tasks1, wbs |-> wbs1, task |-> taskRow, wb |-> wbRow]

\* TaskService.update_enrichment when both rows are found, on the session
\* objects of run: the assignments, the commit and the two refreshes.  It
\* gives the two tables as the commit leaves them and the refreshed rows.
UpdateEnrichment(run, status, enrichedText, errorMessage) ==
  LET t == run.task
      ct1 == [run.ct EXCEPT !.enriched_text = enrichedText]
      cw1 == [run.cw EXCEPT !.enrichment_status = status,
                            !.error_message = errorMessage]
      tasks1 == FlushTable(tasks, t, ct1, run.bt)
      wbs1 == FlushTable(wbs, t, cw1, run.bw)
      taskRow == IF t \in DOMAIN tasks1 THEN tasks1[t] ELSE ct1
      wbRow == IF t \in DOMAIN wbs1 THEN wbs1[t] ELSE cw1
  IN [tasks |-> tasks1, wbs |-> wbs1, task |-> taskRow, wb |-> wbRow]

\* the stored tables after an update_enrichment
Committed(u) == tasks' = u.tasks /\ wbs' = u.wbs

\* an except clause that records the failure without looking for the rows
ExceptClauseUnguarded(r, run, message, gw) ==
  /\ Committed(UpdateEnrichment(run, "failed", Null,
                                Some(StrException(message))))
  /\ SetRun(r, EndedRun(run, "failed", message, gw))

\* lines 109-118: the except clause with the exception's message; an
\* exception of its own update_enrichment leaves enrich_task_background
ExceptClause(r, run, message, gw) ==
  IF UpdateEnrichmentRaises(run.task)
  THEN /\ SetRun(r, EndedRun(run, "raised", NotFoundMessage(run.task), gw))
       /\ UNCHANGED <<tasks, wbs>>
  ELSE /\ Committed(UpdateEnrichment(run, "failed", Null,
                                     Some(StrException(message))))
       /\ SetRun(r, EndedRun(run, "failed", message, gw))

\* lines 38-48: get_by_id, get_workbench_entry, update_enrichment(task_id,
\* PROCESSING), and enrich down to the call of the provider
RunStart(r) ==
  LET run == LoadedRun(runs[r])
      u == UpdateEnrichment(run, "processing", Null, Null)
  IN /\ run.pc = "scheduled"
     /\ IF UpdateEnrichmentRaises(run.task)
        THEN ExceptClause(r, run, NotFoundMessage(run.task), Null)
        ELSE /\ Committed(u)
             /\ SetRun(r, [run EXCEPT !.pc = "enrich_wait",
                                      !.ct = u.task, !.bt = u.task,
                                      !.cw = u.wb, !.bw = u.wb, !.attempts = 1,
                                      !.pre = tasks[run.task]])
     /\ last' = NoRequest
     /\ UNCHANGED <<nextId, fkEnforced, sessionKept, scope, todos, call, ret>>

\* the provider answers the enrich call: line 48 assigns and lines 51-54
\* call the provider again, or line 48 raises
EnrichReturns(r, answer) ==
  LET run == runs[r]
      res == ServiceEnrichResult(answer)
  IN /\ run.pc = "enrich_wait"
     /\ IF res.ok
        THEN /\ SetRun(r, [run EXCEPT !.pc = "extract_wait",
                                      !.enriched = res.value, !.attempts = 1])
             /\ UNCHANGED <<tasks, wbs>>
        ELSE ExceptClause(r, run, res.message, res.gateway)
     /\ last' = NoRequest
     /\ UNCHANGED <<nextId, fkEnforced, sessionKept, scope, todos, call, ret>>

\* the provider answers the extract call: line 51 assigns or raises, lines
\* 56-97 assign on the session's objects and line 100 commits.  An
\* exception of the deadline parser leaves the earlier assignments pending
\* in the session, where the commit of the except clause finds them; a
\* commit whose UPDATE finds no tasks row fails.
ExtractReturns(r, answer) ==
  LET run == runs[r]
      t == run.task
      res == ServiceExtractResult(answer)
      p == PopulateFields(run.ct, run.cw, res.value[1], r)
  IN /\ run.pc = "extract_wait"
     /\ IF ~res.ok
        THEN ExceptClause(r, run, res.message, res.gateway)
        ELSE IF p.raised
        THEN ExceptClause(r, [run EXCEPT !.ct = p.task, !.cw = p.wb,
                                         !.resp = res.value],
                          p.message, Null)
        ELSE IF GetByIdRaises(t)
        THEN ExceptClause(r, run, <<"UPDATE statement on table 'tasks' expected to update 1 row(s)">>,
                          Null)
        ELSE /\ tasks' = FlushTable(tasks, t, p.task, run.bt)
             /\ wbs' = FlushTable(wbs, t, p.wb, run.bw)
             /\ SetRun(r, [run EXCEPT !.pc = "populated", !.resp = res.value,
                                      !.ct = p.task, !.bt = p.task,
                                      !.cw = p.wb, !.bw = p.wb])
     /\ last' = NoRequest
     /\ UNCHANGED <<nextId, fkEnforced, sessionKept, scope, todos, call, ret>>

\* lines 103-107: update_enrichment(task_id, COMPLETED, enriched_text)
RunMarkCompleted(r) ==
  LET run == runs[r]
  IN /\ run.pc = "populated"
     /\ IF UpdateEnrichmentRaises(run.task)
        THEN ExceptClause(r, run, NotFoundMessage(run.task), Null)
        ELSE /\ Committed(UpdateEnrichment(run, "completed", run.enriched,
                                           Null))
             /\ SetRun(r, EndedRun(run, "completed", <<>>, Null))
     /\ last' = NoRequest
     /\ UNCHANGED <<nextId, fkEnforced, sessionKept, scope, todos, call, ret>>

\* the steps a run takes by itself
RunStep(r) == RunStart(r) \/ RunMarkCompleted(r)

Next ==
  \/ \E u \in ScopeInputs : CreateTask(u)
  \/ \E t \in TaskIds : RetryTask(t)
  \/ \E t \in TaskIds : DeleteTask(t)
  \/ \E r \in RunIds : RunStart(r)
  \/ \E r \in RunIds : \E a \in ScopeEnrichAnswers(runs[r].ct.user_input) :
       EnrichReturns(r, a)
  \/ \E r \in RunIds : \E a \in ScopeExtractAnswers : ExtractReturns(r, a)
  \/ \E r \in RunIds : RunMarkCompleted(r)

Spec == Init /\ [][Next]_vars

\* the todo list and the user's corrections beside the pipeline
LaneInit ==
  /\ tasks = <<>>
  /\ wbs = <<>>
  /\ todos = <<>>
  /\ call = Null
  /\ ret = Null
  /\ runs = [r \in RunIds |-> UnusedRun]
  /\ nextId = 1
  /\ scope = "lanes"
  /\ fkEnforced \in BOOLEAN
  /\ sessionKept \in BOOLEAN
  /\ last = NoRequest

LaneNext ==
  \/ Next
  \/ \E t \in TaskIds : \E p \in Positions : \E now \in Instants :
       MoveToTodos(t, p, now)
  \/ \E t \in TaskIds : \E u \in MetadataUpdates : UpdateTaskMetadata(t, u)

LaneSpec == LaneInit /\ [][LaneNext]_vars

\* ------------------------------------------------ functions on their own
\* A function is called once on an argument (call) and returns or raises
\* (ret); the store takes no part.
Idle ==
  /\ tasks = <<>>
  /\ wbs = <<>>
  /\ todos = <<>>
  /\ runs = [r \in RunIds |-> UnusedRun]
  /\ nextId = 1
  /\ scope = "data"
  /\ fkEnforced = TRUE
  /\ sessionKept = TRUE
  /\ last = NoRequest

\* the relative part of a deadline phrase
Relative(name, kws, inn) == [name |-> name, kws |-> kws, inn |-> inn]

RelativeParts ==
  { Relative("whenever", {}, <<>>),
    Relative("tomorrow", {"tomorrow"}, <<>>),
    Relative("yesterday", {"yesterday"}, <<>>),
    Relative("next week", {"next week", "next"}, <<>>),
    Relative("this week", {"this week"}, <<>>),
    Relative("next month", {"next month", "next"}, <<>>),
    Relative("monday tomorrow", {"tomorrow", "monday"}, <<>>),
    Relative("next week friday", {"next week", "next", "friday"}, <<>>),
    Relative("sunday or monday", {"sunday", "monday"}, <<>>),
    Relative("eod friday", {"eod", "friday"}, <<>>),
    Relative("eod", {"eod"}, <<>>),
    Relative("end of day", {"end of day"}, <<>>),
    Relative("end of week", {"end of week"}, <<>>),
    Relative("eow", {"eow"}, <<>>),
    Relative("end of month", {"end of month"}, <<>>),
    Relative("eom", {"eom"}, <<>>),
    Relative("in 3 days", {}, <<3, "day">>),
    Relative("in 2 weeks", {}, <<2, "week">>),
    Relative("in 1 month", {}, <<1, "month">>),
    Relative("in 13 months", {}, <<13, "month">>),
    Relative("in 30 hours", {}, <<30, "hour">>),
    Relative("in 4000000 days", {}, <<4000000, "day">>),
    Relative("in 99999 months", {}, <<99999, "month">>),
    Relative("in 3 days next friday", {"next", "friday"}, <<3, "day">>) }
  \cup { Relative(Weekdays[i], {Weekdays[i]}, <<>>) : i \in 1..7 }
  \cup { Relative(Weekdays[i], {Weekdays[i], "next"}, <<>>) : i \in 1..7 }

\* the time of day of a phrase: the H:MM[am|pm] and the H[am|pm] match
TimeParts ==
  { [hm |-> <<>>, ham |-> <<>>],
    [hm |-> <<15, 0, "">>, ham |-> <<>>],
    [hm |-> <<3, 30, "pm">>, ham |-> <<>>],
    [hm |-> <<12, 15, "am">>, ham |-> <<>>],
    [hm |-> <<25, 0, "">>, ham |-> <<>>],
    [hm |-> <<10, 75, "">>, ham |-> <<>>],
    [hm |-> <<>>, ham |-> <<3, "pm">>],
    [hm |-> <<>>, ham |-> <<12, "am">>],
    [hm |-> <<>>, ham |-> <<25, "pm">>] }

\* what dateutil's fuzzy parser gives: a ValueError, or a datetime
FuzzyResults == { Null, Some(DateTime(2025, 11, 15, 0, 0, 0)) }

Phrases ==
  { [name |-> r.name, kws |-> r.kws, inn |-> r.inn, hm |-> t.hm, ham |-> t.ham,
     fuzzy |-> f] : r \in RelativeParts, t \in TimeParts, f \in FuzzyResults }
  \cup { Phrase("today", {}, <<>>, <<>>, <<>>), Phrase("now", {}, <<>>, <<>>, <<>>),
         Phrase("", {}, <<>>, <<>>, <<>>) }

\* reference instants: every weekday, ends of months, a leap day, the last year
RefInstants ==
  { DateTime(2025, 1, d, 10, 30, 15) : d \in 6..12 }
  \cup { DateTime(2025, 1, 31, 23, 0, 0), DateTime(2024, 2, 29, 0, 0, 0),
         DateTime(2025, 12, 31, 10, 30, 15), DateTime(9999, 12, 31, 10, 30, 15) }

ParseInit ==
  /\ Idle
  /\ call \in [phrase : Phrases, ref : RefInstants]
  /\ ret = Null

\* parse_deadline(deadline_text, reference_time)
ParseDeadlineCall ==
  /\ ret = Null
  /\ ret' = Some(ParseDeadline(call.phrase, call.ref))
  /\ UNCHANGED <<store, call>>

ParseSpec == ParseInit /\ [][ParseDeadlineCall]_vars

\* the markers _handle_api_error looks for in an error's lowercased text
Markers ==
  {"auth", "unauthorized", "api key", "rate limit", "quota", "server error",
   "503", "unavailable", "500", "timeout"}

\* the errors of the provider: a text that contains "unauthorized" contains
\* "auth"
Signals ==
  { Signal(<<"provider", "error">>, h) :
      h \in { m \in SUBSET Markers : "unauthorized" \in m => "auth" \in m } }

ClassifyInit ==
  /\ Idle
  /\ call \in [op : {"enrich", "extract"}, sig : Signals]
  /\ ret = Null

\* the provider raises in enrich_task or in extract_metadata
GatewayCallRaises ==
  /\ ret = Null
  /\ ret' = Some(IF call.op = "enrich"
                 THEN EnrichTaskResult([kind |-> "error", text |-> <<>>,
                                        sig |-> call.sig])
                 ELSE ExtractMetadataResult([kind |-> "error", resp |-> RespLow,
                                             sig |-> call.sig]))
  /\ UNCHANGED <<store, call>>

ClassifySpec == ClassifyInit /\ [][GatewayCallRaises]_vars

\* the configurations a deployment can ask for
ApiKeys ==
  { <<>>, <<"A", "I", "z", "a">>, <<"A", "I", "z", "a", "S", "y">>,
    <<"A", "I", "z">>, <<"a", "i", "z", "a", "S", "y">>,
    <<"x", "A", "I", "z", "a">> }

Models == SupportedModels \cup {"gemini-1.0-pro", ""}

Timeouts == {49, 50, 51, 150, 1199, 1200, 1201}

RetryLimits == {-1, 0, 1, 3, 9, 10, 11}

ConfigInit ==
  /\ Idle
  /\ call \in { GeminiClientConfig(k, m, t, n) :
                   k \in ApiKeys, m \in Models, t \in Timeouts, n \in RetryLimits }
  /\ ret = Null

\* GeminiClientConfig(...): __post_init__ validates the new configuration
BuildConfig ==
  /\ ret = Null
  /\ ret' = Some(ValidateConfig(call))
  /\ UNCHANGED <<store, call>>

ConfigSpec == ConfigInit /\ [][BuildConfig]_vars

\* what the provider can put in the categorical fields and the deadline
LlmResponses ==
  { [RespHigh EXCEPT !.task_type = tt, !.task_type_confidence = ttC,
                     !.priority = pi, !.priority_confidence = piC,
                     !.deadline = dl] :
      tt \in {Null, Some("call"), Some("bugfix")}, ttC \in {60, 70, 90},
      pi \in {Null, Some("urgent"), Some("critical")}, piC \in {60, 70, 90},
      dl \in {Null, Some(PhTomorrow3pm), Some(PhTomorrow2500)} }

PopulateInit ==
  /\ Idle
  /\ call \in [resp : LlmResponses]
  /\ ret = Null

\* lines 56-97 of enrich_task_background on a new task
PopulateCall ==
  /\ ret = Null
  /\ ret' = Some(PopulateFields(Inserted(NewTask(<<"call", "mom">>), 1),
                                NewWorkbench, call.resp, 1))
  /\ UNCHANGED <<store, call>>

PopulateSpec == PopulateInit /\ [][PopulateCall]_vars

\* ---------------------------------------------------------------- tags
TextLen == 3

\* a word in one of its spellings; low is its lowercase spelling
Word(low, form) == [low |-> low, form |-> form]

\* str.lower
Lower(w) == Word(w.low, "lower")

Range(seq) == { seq[i] : i \in DOMAIN seq }

SeqsUpTo(S, n) == UNION { [1..k -> S] : k \in 0..n }

\* the tokens of a text: a plain word, "#" followed by a word, a bare "#"
TextTokens ==
  { [kind |-> "word", word |-> Word("fix", "lower")],
    [kind |-> "tag", word |-> Word("bug", "lower")],
    [kind |-> "tag", word |-> Word("bug", "capital")],
    [kind |-> "tag", word |-> Word("bug", "upper")],
    [kind |-> "tag", word |-> Word("ui", "lower")],
    [kind |-> "hash", word |-> Word("", "lower")] }

TagTexts == SeqsUpTo(TextTokens, TextLen)

\* the tags an LLM answer carries; null when the answer says "tags": null
LlmTagLists ==
  { Null,
    Some(<<>>),
    Some(<<Word("bug", "lower")>>),
    Some(<<Word("bug", "capital")>>),
    Some(<<Word("api", "lower")>>),
    Some(<<Word("bug", "capital"), Word("api", "lower")>>),
    Some(<<Word("api", "lower"), Word("bug", "lower")>>),
    Some(<<Word("bug", "lower"), Word("bug", "capital")>>) }

\* re.findall(r'#(\w+)', text)
RECURSIVE FindAll(_)
FindAll(text) ==
  IF text = <<>> THEN <<>>
  ELSE IF Head(text).kind = "tag"
       THEN <<Head(text).word>> \o FindAll(Tail(text))
       ELSE FindAll(Tail(text))

\* a loop that keeps every spelling as it is written
RECURSIVE UniqueTagsAsWritten(_, _, _)
UniqueTagsAsWritten(tags, seen, unique) ==
  IF tags = <<>> THEN unique
  ELSE IF Lower(Head(tags)) \in seen
       THEN UniqueTagsAsWritten(Tail(tags), seen, unique)
       ELSE UniqueTagsAsWritten(Tail(tags), seen \cup {Lower(Head(tags))},
                                Append(unique, Head(tags)))

\* the loop of extract_tags over the tags found
RECURSIVE UniqueTags(_, _, _)
UniqueTags(tags, seen, unique) ==
  IF tags = <<>> THEN unique
  ELSE LET tag_lower == Lower(Head(tags))
       IN IF tag_lower \notin seen
          THEN UniqueTags(Tail(tags), seen \cup {tag_lower},
                          Append(unique, tag_lower))
          ELSE UniqueTags(Tail(tags), seen, unique)

ExtractTags(text) ==
  IF text = <<>> THEN <<>> ELSE UniqueTags(FindAll(text), {}, <<>>)

\* list(set(...)): the distinct elements in an order the build chooses
RECURSIVE ListsOfSet(_)
ListsOfSet(S) ==
  IF S = {} THEN {<<>>}
  ELSE UNION { { <<x>> \o l : l \in ListsOfSet(S \ {x}) } : x \in S }

\* the tags _post_process_extraction can return
AllTags(text, llmTags) ==
  IF llmTags = Null THEN { Raised(<<"TypeError">>) }
  ELSE { Returned(l) : l \in ListsOfSet(Range(ExtractTags(text) \o llmTags[1])) }

TagsInit ==
  /\ Idle
  /\ call \in [op : {"extract_tags"}, text : TagTexts]
              \cup [op : {"post_process"}, text : TagTexts, tags : LlmTagLists]
  /\ ret = Null

ExtractTagsCall ==
  /\ call.op = "extract_tags"
  /\ ret = Null
  /\ ret' = Some(Returned(ExtractTags(call.text)))
  /\ UNCHANGED <<store, call>>

PostProcessCall ==
  /\ call.op = "post_process"
  /\ ret = Null
  /\ \E result \in AllTags(call.text, call.tags) : ret' = Some(result)
  /\ UNCHANGED <<store, call>>

TagsNext == ExtractTagsCall \/ PostProcessCall

TagsSpec == TagsInit /\ [][TagsNext]_vars

\* ---------------------------------------------------------- retry loop
RetryLimit == 2

\* what one invocation of the wrapped call does: it returns, raises a
\* GeminiAPIError, or raises another exception
CallReturns == [kind |-> "ok", retryable |-> FALSE, retry_after |-> Null]
CallFails(retryable, retryAfter) == [kind |-> "gemini", retryable |-> retryable, retry_after |-> retryAfter]
CallBreaks == [kind |-> "other", retryable |-> FALSE, retry_after |-> Null]

\* seconds the provider asks to wait: none, 0, 3
RetryHints == { Null, Some(0), Some(3) }

CallOutcomes ==
  {CallReturns, CallBreaks, CallFails(FALSE, Null)}
    \cup { CallFails(TRUE, h) : h \in RetryHints }

\* a loop that gives up one attempt later
GivesUpLate(e, attempts, maxRetries) == ~e.retryable \/ attempts > maxRetries

\* line 94: if not e.is_retryable or attempts >= max_retries
GivesUp(e, attempts, maxRetries) == ~e.retryable \/ attempts >= maxRetries

\* a delay that takes the hint alone when there is one
BackoffDelayHintOnly(baseDelay, attempts, e) ==
  IF e.retry_after # Null /\ e.retry_after[1] # 0 THEN e.retry_after[1]
  ELSE baseDelay * (2 ^ attempts)

\* lines 99-101: the exponential delay, raised to the hint when there is one
BackoffDelay(baseDelay, attempts, e) ==
  LET delay == baseDelay * (2 ^ attempts)
  IN IF e.retry_after # Null /\ e.retry_after[1] # 0
     THEN IF delay >= e.retry_after[1] THEN delay ELSE e.retry_after[1]
     ELSE delay

\* the wrapper's frame: line 86-87
RetryFrame == [pc |-> "loop", attempts |-> 0, log |-> <<>>, delays |-> <<>>]

RetryInit ==
  /\ Idle
  /\ call \in [max_retries : 0..RetryLimit, base_delay : {1, 2}]
  /\ ret = Some(RetryFrame)

\* lines 89-96: one turn of the while loop up to the sleep; the wrapped call
\* does o
RetryAttempt(o) ==
  /\ ret[1].pc = "loop"
  /\ LET f == ret[1]
         g == [f EXCEPT !.log = Append(@, o)]
     IN ret' = Some(
          IF f.attempts > call.max_retries THEN [f EXCEPT !.pc = "none"]
          ELSE IF o.kind = "ok" THEN [g EXCEPT !.pc = "returned"]
          ELSE IF o.kind = "other" THEN [g EXCEPT !.pc = "raised"]
          ELSE IF GivesUp(o, f.attempts, call.max_retries)
               THEN [g EXCEPT !.pc = "raised"]
          ELSE [g EXCEPT !.pc = "sleep",
                         !.delays = Append(@, BackoffDelay(call.base_delay,
                                                           f.attempts, o))])
  /\ UNCHANGED <<store, call>>

\* lines 108-109: the sleep ends
RetrySleepEnds ==
  /\ ret[1].pc = "sleep"
  /\ ret' = Some([ret[1] EXCEPT !.pc = "loop", !.attempts = @ + 1])
  /\ UNCHANGED <<store, call>>

RetryNext ==
  \/ \E o \in CallOutcomes : RetryAttempt(o)
  \/ RetrySleepEnds

RetrySpec == RetryInit /\ [][RetryNext]_vars

\* the steps of the code are taken; the provider owes no answer
FairSpec == Spec /\ \A r \in RunIds : WF_vars(RunStep(r))

\* ================================================================ claims
RunsOf(t) == { r \in RunIds : runs[r].task = t }

Stored(t) == t \in DOMAIN tasks /\ t \in DOMAIN wbs

\* the enriched texts the service can return for a user input
OwnEnriched(userInput) ==
  { Some(Strip(x)) : x \in EnrichReplies(userInput) \ {<<>>} }

PermittedTransitions ==
  { <<"pending", "processing">>, <<"processing", "completed">>,
    <<"processing", "failed">>, <<"failed", "pending">>,
    <<"completed", "pending">> }

\* C1: whatever create, the pipeline runs and retry_task do, and in whatever
\* order, a task's enrichment_status changes only along pending->processing,
\* processing->completed, processing->failed, failed->pending and
\* completed->pending.
C1_OnlyPermittedTransitions ==
  [][\A t \in DOMAIN wbs \cap DOMAIN wbs' :
       wbs[t].enrichment_status # wbs'[t].enrichment_status
       => <<wbs[t].enrichment_status, wbs'[t].enrichment_status>>
            \in PermittedTransitions]_vars

\* C2: when every task has had exactly one run, all runs have ended, no task
\* was deleted and the gateway raised for exactly one task k, then k is
\* failed with an error_message containing the gateway's message and every
\* other task is completed with its own enriched_text.
C2_Isolation ==
  LET gatewayRaised(t) == \E r \in RunsOf(t) : runs[r].gateway # Null
  IN ( /\ InFlight = {}
       /\ DOMAIN tasks = 1..(nextId - 1)
       /\ DOMAIN wbs = DOMAIN tasks
       /\ \A t \in DOMAIN tasks : Cardinality(RunsOf(t)) = 1
       /\ Cardinality({ t \in DOMAIN tasks : gatewayRaised(t) }) = 1 )
     => \A t \in DOMAIN tasks : \A r \in RunsOf(t) :
          IF runs[r].gateway # Null
          THEN /\ wbs[t].enrichment_status = "failed"
               /\ wbs[t].error_message # Null
               /\ Contains(wbs[t].error_message[1], runs[r].gateway[1].message)
          ELSE /\ wbs[t].enrichment_status = "completed"
               /\ tasks[t].enriched_text \in OwnEnriched(tasks[t].user_input)

\* C3: when the gateway's enrich call raises in the only run of a task that
\* is still stored, the run ends with enrichment_status failed, enriched_text
\* null, an error_message containing the gateway's message, every metadata
\* field and extracted_at null, and metadata_suggestions null.
C3_EnrichFailureOnFreshTask ==
  [][\A r \in RunIds :
       LET t == runs[r].task IN
       ( /\ runs[r].pc = "enrich_wait"
         /\ runs'[r].pc \in {"failed", "raised"}
         /\ RunsOf(t) = {r}
         /\ t \in DOMAIN tasks' /\ t \in DOMAIN wbs' )
       => /\ runs'[r].pc = "failed"
          /\ wbs'[t].enrichment_status = "failed"
          /\ tasks'[t].enriched_text = Null
          /\ wbs'[t].error_message # Null
          /\ runs'[r].gateway # Null
          /\ Contains(wbs'[t].error_message[1], runs'[r].gateway[1].message)
          /\ \A f \in MetadataFields : tasks'[t][f] = Null
          /\ tasks'[t].extracted_at = Null
          /\ wbs'[t].metadata_suggestions = Null]_vars

C3_Witness ==
  \E r \in RunIds :
    /\ runs[r].pc = "failed" /\ runs[r].gateway # Null
    /\ runs[r].enriched = Null
    /\ RunsOf(runs[r].task) = {r}
    /\ Stored(runs[r].task)
    /\ wbs[runs[r].task].enrichment_status = "failed"

\* C4: a run that ends by setting enrichment_status failed leaves the task's
\* enriched_text, metadata fields, extracted_at and requires_attention as
\* they were stored when the run began.
C4_FailureLeavesTaskUntouched ==
  [][\A r \in RunIds :
       LET t == runs[r].task IN
       (runs[r].pc \in {"enrich_wait", "extract_wait", "populated"}
        /\ runs'[r].pc = "failed")
       => \A f \in MetadataFields
                   \cup {"enriched_text", "extracted_at", "requires_attention"} :
            tasks'[t][f] = runs[r].pre[f]]_vars

\* C5: enrich_task_background never raises to its caller.
C5_NeverRaises == \A r \in RunIds : runs[r].pc # "raised"

\* C6: a run for a task id without a task or without an enrichment entry
\* ends with a not-found error and changes no stored row.
C6_MissingTaskAborts ==
  [][\A r \in RunIds :
       ( /\ runs[r].pc = "scheduled"
         /\ runs'[r] # runs[r]
         /\ (runs[r].task \notin DOMAIN tasks \/ runs[r].task \notin DOMAIN wbs) )
       => /\ UNCHANGED <<tasks, wbs, todos>>
          /\ runs'[r].pc = "raised"
          /\ IsNotFound(runs'[r].err)]_vars

C6_Witness ==
  \E r \in RunIds :
    /\ runs[r].pc = "raised" /\ runs[r].attempts = 0
    /\ runs[r].task \notin DOMAIN tasks
    /\ runs[r].task \in DOMAIN wbs

\* C7: a run whose task stays stored does not wait for the provider for
\* ever: it ends, whatever the provider does.
C7_NoRunHangs ==
  \A r \in RunIds :
    (runs[r].pc = "enrich_wait")
      ~> (runs[r].pc \in Terminal \/ ~Stored(runs[r].task))

\* C8: the pipeline marks a task failed for a retryable gateway error only
\* after the provider was called max_retries + 1 times.
C8_RetriedBeforeFailed ==
  \A r \in RunIds :
    (runs[r].pc = "failed" /\ runs[r].gateway # Null
     /\ runs[r].gateway[1].is_retryable)
    => runs[r].attempts = MaxRetries + 1

\* C9: a run that succeeds ends with enrichment_status completed,
\* enriched_text the trimmed text the gateway returned for the task's own
\* user_input, and error_message null.
C9_SuccessStoresEnrichedText ==
  [][\A r \in RunIds :
       LET t == runs[r].task IN
       (runs[r].pc = "populated" /\ runs'[r].pc = "completed")
       => /\ wbs'[t].enrichment_status = "completed"
          /\ tasks'[t].enriched_text = runs[r].enriched
          /\ tasks'[t].enriched_text \in OwnEnriched(tasks'[t].user_input)
          /\ wbs'[t].error_message = Null]_vars

\* C10: while a run's enrich call is in flight, the stored enrichment_status
\* of its task is processing.
C10_ProcessingWhileEnriching ==
  \A r \in RunIds :
    (runs[r].pc = "enrich_wait" /\ Stored(runs[r].task))
    => wbs[runs[r].task].enrichment_status = "processing"

\* the fields the pipeline gates, with the confidence that gates each and
\* the value lines 61-91 of enrich_task_background assign
GatedFields ==
  {"project", "persons", "task_type", "priority", "deadline_text",
   "effort_estimate", "dependencies", "tags"}

FieldConfidence(resp, f) ==
  CASE f = "project" -> resp.project_confidence
    [] f = "persons" -> resp.persons_confidence
    [] f = "task_type" -> resp.task_type_confidence
    [] f = "priority" -> resp.priority_confidence
    [] f = "deadline_text" -> resp.deadline_confidence
    [] f = "effort_estimate" -> resp.effort_confidence
    [] f = "dependencies" -> resp.dependencies_confidence
    [] f = "tags" -> resp.tags_confidence

FieldValue(resp, f) ==
  CASE f = "project" -> resp.project
    [] f = "persons" -> Some(<<"json", resp.persons>>)
    [] f = "task_type" -> resp.task_type
    [] f = "priority" -> resp.priority
    [] f = "deadline_text" -> resp.deadline
    [] f = "effort_estimate" -> resp.effort_estimate
    [] f = "dependencies" -> Some(<<"json", resp.dependencies>>)
    [] f = "tags" -> Some(<<"json", resp.tags>>)

\* C11: in a pipeline run that received an extraction result, each gated
\* field of the stored task holds the extracted value if and only if the
\* field's own confidence is at least 0.7, and otherwise the value the task
\* had when the run began.
C11_ConfidenceGating ==
  [][\A r \in RunIds :
       LET t == runs[r].task IN
       (runs[r].pc = "extract_wait" /\ runs'[r].resp # Null /\ t \in DOMAIN tasks')
       => \A f \in GatedFields :
            tasks'[t][f] =
              IF FieldConfidence(runs'[r].resp[1], f) >= ConfidenceThreshold
              THEN FieldValue(runs'[r].resp[1], f)
              ELSE runs[r].pre[f]]_vars

\* C12: when a run ends completed, the stored metadata_suggestions is the
\* serialization of every value and every confidence of the extraction
\* result of that run.
C12_SuggestionsAreTheRunsResult ==
  [][\A r \in RunIds :
       LET t == runs[r].task IN
       (runs[r].pc = "populated" /\ runs'[r].pc = "completed")
       => /\ wbs'[t].metadata_suggestions # Null
          /\ wbs'[t].metadata_suggestions[1][1] = "json"
          /\ wbs'[t].metadata_suggestions[1][2] = runs[r].resp[1]]_vars

\* C13: when the extracted deadline is present with confidence at least 0.7,
\* the step that handles the extraction result stores the phrase in
\* deadline_text and its parse in deadline_parsed, null when the phrase
\* cannot be parsed, and the run goes on towards completed.
C13_DeadlineParseNotFatal ==
  [][\A r \in RunIds :
       LET t == runs[r].task
           resp == runs'[r].resp[1]
           parsed == ParseDeadline(resp.deadline[1], RefNow)
       IN ( /\ runs[r].pc = "extract_wait" /\ runs'[r].resp # Null
            /\ t \in DOMAIN tasks'
            /\ resp.deadline # Null
            /\ resp.deadline_confidence >= ConfidenceThreshold )
          => /\ runs'[r].pc = "populated"
             /\ tasks'[t].deadline_text = resp.deadline
             /\ tasks'[t].deadline_parsed =
                  IF parsed.raised THEN Null ELSE parsed.value]_vars

\* C14: the step that stores the populated fields leaves requires_attention
\* true exactly when the extraction result's project is absent or its
\* project confidence is below 0.7.
C14_RequiresAttentionFromProject ==
  [][\A r \in RunIds :
       LET t == runs[r].task
           resp == runs'[r].resp[1]
       IN (runs[r].pc = "extract_wait" /\ runs'[r].pc = "populated")
          => tasks'[t].requires_attention =
               (resp.project = Null \/ resp.project_confidence < ConfidenceThreshold)]_vars

\* C15: when a run has just ended completed, a task whose project is null
\* has requires_attention true.
C15_NullProjectNeedsAttention ==
  [][\A r \in RunIds :
       LET t == runs[r].task IN
       (runs[r].pc = "populated" /\ runs'[r].pc = "completed")
       => (tasks'[t].project = Null => tasks'[t].requires_attention)]_vars

\* the request that has just been served is a retry of t that found the task
Retried(t) == last = Outcome("retry", t, "ok")

ValidStatuses == {"pending", "processing", "completed", "failed"}

\* C16: retry_task sets enrichment_status to pending and error_message to
\* null and changes nothing else of the task or of its enrichment entry;
\* for a task that is not stored it reports not-found and changes nothing.
C16_RetryFrame ==
  [][\A t \in TaskIds :
       /\ Retried(t)'
          => /\ Stored(t)
             /\ tasks' = tasks
             /\ wbs' = [wbs EXCEPT ![t] =
                          [@ EXCEPT !.enrichment_status = "pending",
                                    !.error_message = Null]]
       /\ (last' = Outcome("retry", t, "not_found"))
          => ~Stored(t) /\ UNCHANGED <<tasks, wbs, runs>>]_vars

C16_Witness ==
  \E t \in DOMAIN tasks \cap DOMAIN wbs :
    /\ Retried(t)
    /\ wbs[t].enrichment_status = "pending"
    /\ wbs[t].metadata_suggestions # Null
    /\ tasks[t].project # Null
    /\ tasks[t].deadline_parsed # Null

\* C17: immediately after retry_task the task's extracted_at is null, as is
\* error_message.
C17_RetryClearsExtractedAt ==
  [][\A t \in TaskIds :
       Retried(t)' => /\ tasks'[t].extracted_at = Null
                      /\ wbs'[t].error_message = Null]_vars

C19_DuplicateRunsEndWell ==
  \A t \in DOMAIN tasks \cap DOMAIN wbs :
    ( /\ Cardinality(RunsOf(t)) >= 2
      /\ \A r \in RunsOf(t) : runs[r].pc \in {"completed", "failed"} )
    => /\ wbs[t].enrichment_status \in {"completed", "failed"}
       /\ wbs[t].enrichment_status = "completed"
          => /\ tasks[t].enriched_text # Null
             /\ \E r \in RunsOf(t) : runs[r].enriched = tasks[t].enriched_text

\* C20: error_message is non-null only while enrichment_status is failed.
C20_ErrorOnlyWhileFailed ==
  \A t \in DOMAIN wbs :
    wbs[t].error_message # Null => wbs[t].enrichment_status = "failed"

\* ------------------------------------------------------------------------
\* C21: after any interleaving of create, move_to_todos, retry, pipeline
\* runs and delete, a task has at most one enrichment entry and at most one
\* todo entry (the tables are keyed by task id), an entry's
\* moved_to_todos_at is non-null exactly when the task has a todo entry, and
\* a delete that succeeds leaves neither the task's enrichment entry nor its
\* todo entry.
C21_EntriesFollowTask ==
  [][/\ \A t \in DOMAIN wbs' :
          wbs'[t].moved_to_todos_at # Null <=> t \in DOMAIN todos'
     /\ DOMAIN todos' \subseteq DOMAIN wbs'
     /\ \A t \in DOMAIN tasks :
          last' = Outcome("delete", t, "ok") /\ t \notin DOMAIN tasks'
          => t \notin DOMAIN wbs' /\ t \notin DOMAIN todos']_vars

\* C22: move_to_todos on a stored task whose moved_to_todos_at is set ends
\* with the already-moved error and leaves the task, its enrichment entry
\* (moved_to_todos_at included) and the todo entries as they were.
C22_SecondMoveChangesNothing ==
  [][\A t \in DOMAIN tasks \cap DOMAIN wbs :
       \A p \in Positions : \A now \in Instants :
         wbs[t].moved_to_todos_at # Null /\ MoveToTodos(t, p, now)
         => /\ last' = Outcome("move", t, "already_moved")
            /\ UNCHANGED <<tasks, wbs, todos>>]_vars

C22_Witness ==
  \E t \in DOMAIN tasks \cap DOMAIN wbs :
    /\ last = Outcome("move", t, "already_moved")
    /\ wbs[t].moved_to_todos_at # Null
    /\ t \in DOMAIN todos

\* whitespace-only or empty
Blank(userInput) == \A i \in 1..Len(userInput) : userInput[i] = " "

\* C23: create with an empty or whitespace-only input ends with a
\* validation error and stores nothing; with any other input it stores one
\* new task with that input unchanged and enriched_text null, and one new
\* enrichment entry with enrichment_status pending, error_message null and
\* moved_to_todos_at null, and touches no other row.
C23_CreateValidates ==
  [][\A u \in LaneInputs \cup Inputs :
       CreateTask(u)
       => IF Blank(u)
          THEN /\ last'.result = "validation_error"
               /\ UNCHANGED <<tasks, wbs, todos>>
          ELSE \E t \in TaskIds :
                 /\ t \notin DOMAIN tasks /\ t \notin DOMAIN wbs
                 /\ DOMAIN tasks' = DOMAIN tasks \cup {t}
                 /\ DOMAIN wbs' = DOMAIN wbs \cup {t}
                 /\ \A o \in DOMAIN tasks : tasks'[o] = tasks[o]
                 /\ \A o \in DOMAIN wbs : wbs'[o] = wbs[o]
                 /\ tasks'[t].user_input = u
                 /\ tasks'[t].enriched_text = Null
                 /\ wbs'[t].enrichment_status = "pending"
                 /\ wbs'[t].error_message = Null
                 /\ wbs'[t].moved_to_todos_at = Null
                 /\ last' = Outcome("create", t, "ok")]_vars

C23_Witness ==
  /\ last = Outcome("create", 1, "ok")
  /\ 1 \in DOMAIN tasks
  /\ tasks[1].user_input = <<" ", "call", "mom", " ">>
  /\ wbs[1].enrichment_status = "pending"

StoredValue(f, v) ==
  IF f \in {"persons", "dependencies", "tags"} THEN Some(JsonDumps(v[1])) ELSE v

\* C25: a metadata correction stores the fields the request supplies
\* non-null, leaves every other metadata field, user_input, enriched_text,
\* created_at, extracted_at, the enrichment entry and the todo entry as they
\* were and sets requires_attention to false; for a task that is not stored
\* it reports not-found and changes nothing.
C25_CorrectionWritesSuppliedFields ==
  [][\A t \in TaskIds : \A u \in MetadataUpdates :
       UpdateTaskMetadata(t, u)
       => IF t \notin DOMAIN tasks
          THEN /\ last' = Outcome("update", t, "not_found")
               /\ UNCHANGED <<tasks, wbs, todos>>
          ELSE /\ \A f \in MetadataFields :
                    tasks'[t][f] = IF u[f] # Null THEN StoredValue(f, u[f])
                                   ELSE tasks[t][f]
               /\ \A a \in {"user_input", "enriched_text", "created_at",
                             "extracted_at"} : tasks'[t][a] = tasks[t][a]
               /\ tasks'[t].requires_attention = FALSE
               /\ \A o \in DOMAIN tasks \ {t} : tasks'[o] = tasks[o]
               /\ DOMAIN tasks' = DOMAIN tasks
               /\ UNCHANGED <<wbs, todos>>
               /\ last' = Outcome("update", t, "ok")]_vars

C25_Witness ==
  \E t \in DOMAIN tasks :
    /\ last = Outcome("update", t, "ok")
    /\ tasks[t].project = Some("Manual")
    /\ tasks[t].priority = Some("urgent")
    /\ tasks[t].extracted_at # Null
    /\ ~tasks[t].requires_attention

\* C26: a task created without an explicit priority has priority low.
C26_PriorityDefaultsToLow ==
  [][\A t \in DOMAIN tasks' \ DOMAIN tasks :
       tasks'[t].priority = Some("low")]_vars

\* models/enums.py
TaskTypes ==
  {"meeting", "call", "email", "review", "development", "research",
   "administrative", "other"}

Priorities == {"low", "normal", "high", "urgent"}

\* C27: every task_type and priority the pipeline assigns to a task is null
\* or a member of the categorical set, a confident string of the provider
\* outside the set having become "other" / "normal".
C27_CategoricalValuesCoerced ==
  ret # Null =>
    LET task == ret[1].task
        resp == call.resp
    IN /\ task.task_type \in {Null} \cup { Some(x) : x \in TaskTypes }
       /\ task.priority \in {Null} \cup { Some(x) : x \in Priorities }
       /\ ( /\ ShouldPopulateField(resp.task_type_confidence)
            /\ resp.task_type # Null
            /\ resp.task_type[1] \notin TaskTypes )
          => task.task_type = Some("other")
       /\ ( /\ ShouldPopulateField(resp.priority_confidence)
            /\ resp.priority # Null
            /\ resp.priority[1] \notin Priorities )
          => task.priority = Some("normal")

\* C28: the gateway maps an error that carries an authentication marker to
\* status 401, not retryable; else one that carries a rate-limit or quota
\* marker to status 429, retryable, retry_after 60; else one that carries a
\* server-error or unavailable marker to a retryable error; else one that
\* carries a timeout marker to a retryable error; else to a non-retryable
\* error; and enrich and extract map the same error alike.
C28_ErrorClassification ==
  ret # Null =>
    LET has == call.sig.has
        e == ret[1].gateway[1]
        enrich == EnrichTaskResult([kind |-> "error", text |-> <<>>,
                                    sig |-> call.sig])
        extract == ExtractMetadataResult([kind |-> "error", resp |-> RespLow,
                                          sig |-> call.sig])
    IN /\ ~ret[1].ok
       /\ IF has \cap {"auth", "unauthorized", "api key"} # {}
          THEN e.status_code = Some(401) /\ ~e.is_retryable
          ELSE IF has \cap {"rate limit", "quota"} # {}
          THEN /\ e.status_code = Some(429)
               /\ e.is_retryable
               /\ e.retry_after = Some(60)
          ELSE IF has \cap {"server error", "503", "unavailable"} # {}
          THEN e.is_retryable
          ELSE IF "timeout" \in has
          THEN e.is_retryable
          ELSE ~e.is_retryable
       /\ enrich.gateway = extract.gateway
       /\ enrich.gateway = Some(e)

C28_Witness ==
  /\ ret # Null
  /\ call.op = "extract"
  /\ {"api key", "quota", "503", "timeout"} \subseteq call.sig.has
  /\ ret[1].gateway[1].status_code = Some(401)

\* C29: building a GeminiClientConfig fails exactly when the API key is
\* empty or does not start with "AIza", or the model is not supported, or
\* the timeout is outside [5, 120] seconds, or max_retries is outside
\* [0, 10]; the bounds themselves are accepted.
C29_ConfigValidated ==
  ret # Null =>
    ( ret[1].raised
      <=> \/ call.api_key = <<>>
          \/ ~StartsWith(call.api_key, <<"A", "I", "z", "a">>)
          \/ call.model \notin SupportedModels
          \/ call.timeout < 50 \/ call.timeout > 1200
          \/ call.max_retries < 0 \/ call.max_retries > 10 )

C29_Witness ==
  /\ ret # Null
  /\ ~ret[1].raised
  /\ call.timeout = 50
  /\ call.max_retries = 10

\* C30: parse_deadline returns a timestamp or null for every phrase and
\* every reference instant; it never raises.
C30_ParserNeverRaises == ret # Null => ~ret[1].raised

\* the calendar date of a datetime
DateOf(dt) == <<dt.y, dt.m, dt.d>>

\* the relative keyword of a phrase that parse_deadline's order puts first
FirstKeyword(ph) ==
  IF ph.name \in {"today", "now"} THEN "today"
  ELSE IF "tomorrow" \in ph.kws THEN "tomorrow"
  ELSE IF "yesterday" \in ph.kws THEN "yesterday"
  ELSE IF "next week" \in ph.kws THEN "next week"
  ELSE IF "this week" \in ph.kws THEN "this week"
  ELSE IF "next month" \in ph.kws THEN "next month"
  ELSE IF ph.inn # <<>> THEN "in"
  ELSE IF \E i \in 1..7 : Weekdays[i] \in ph.kws THEN "weekday"
  ELSE IF "end of day" \in ph.kws \/ "eod" \in ph.kws THEN "end of day"
  ELSE IF "end of week" \in ph.kws \/ "eow" \in ph.kws THEN "end of week"
  ELSE IF "end of month" \in ph.kws \/ "eom" \in ph.kws THEN "end of month"
  ELSE "none"

\* C31: for a phrase whose first matching keyword is a weekday name W, the
\* parser returns the reference date plus d days, d = (W - weekday(ref)) mod 7,
\* or 7 when that is 0 and the phrase contains "next": the result falls on
\* weekday W, 0 to 7 days after the reference date.
C31_WeekdayOffset ==
  (ret # Null /\ call.phrase.name # "" /\ FirstKeyword(call.phrase) = "weekday") =>
    LET ph == call.phrase
        W == FirstWeekday(ph)
        d0 == (W - Weekday(call.ref)) % 7
        d == IF d0 = 0 /\ "next" \in ph.kws THEN 7 ELSE d0
    IN /\ ~ret[1].raised
       /\ ret[1].value # Null
       /\ DateOf(ret[1].value[1]) = DateOf(AddDays(call.ref, d))
       /\ Weekday(ret[1].value[1]) = W
       /\ ToOrdinal(ret[1].value[1]) - ToOrdinal(call.ref) \in 0..7
       /\ (d0 = 0 /\ "next" \in ph.kws)
          => DateOf(ret[1].value[1]) # DateOf(call.ref)
       /\ (d0 = 0 /\ "next" \notin ph.kws)
          => DateOf(ret[1].value[1]) = DateOf(call.ref)

\* C38: the first relative keyword in the parser's order alone determines
\* the date: today/now gives the reference instant, tomorrow the next day
\* whatever else the phrase contains, yesterday the day before, next week
\* seven days on, this week the reference date, a weekday name the next such
\* day, end of day the reference date, end of week the Friday; and the
\* fuzzy parser's answer is the result exactly when no keyword matches.
C38_FirstKeywordDecides ==
  (ret # Null /\ call.phrase.name # "") =>
    LET ph == call.phrase
        k == FirstKeyword(ph)
        days == IF k = "tomorrow" THEN 1
                ELSE IF k = "yesterday" THEN -1
                ELSE IF k = "next week" THEN 7
                ELSE IF k = "end of week" THEN (4 - Weekday(call.ref)) % 7
                ELSE 0
    IN IF k = "none" THEN ret[1] = Returned(ph.fuzzy)
       ELSE /\ ~ret[1].raised
            /\ ret[1].value # Null
            /\ k = "today" => ret[1].value[1] = call.ref
            /\ k \in {"tomorrow", "yesterday", "next week", "this week",
                      "end of day", "end of week"}
               => DateOf(ret[1].value[1]) = DateOf(AddDays(call.ref, days))

\* the positions of a sequence hold pairwise different values
NoDuplicates(seq) == \A i, j \in DOMAIN seq : seq[i] = seq[j] => i = j

\* C32: extract_tags returns the hashtags of the text in lowercase, each
\* once under case-insensitive comparison, in order of first occurrence;
\* plain words and a bare "#" give no tag, and deduplicating the result
\* again changes nothing.
C32_ExtractTagsLowercaseOnce ==
  (ret # Null /\ call.op = "extract_tags") =>
    LET result == ret[1].value
        found == FindAll(call.text)
    IN /\ ~ret[1].raised
       /\ \A i \in DOMAIN result : result[i].form = "lower"
       /\ NoDuplicates(result)
       /\ Range(result) = { Lower(w) : w \in Range(found) }
       /\ \A i, j \in DOMAIN result :
            i < j => \E a \in DOMAIN found :
                       /\ Lower(found[a]) = result[i]
                       /\ \A b \in DOMAIN found :
                            Lower(found[b]) = result[j] => a < b
       /\ UniqueTags(result, {}, <<>>) = result

\* "#Bug fix the #bug" has yielded exactly ["bug"]
C32_Witness ==
  /\ ret # Null
  /\ call.op = "extract_tags"
  /\ call.text = << [kind |-> "tag", word |-> Word("bug", "capital")],
                    [kind |-> "word", word |-> Word("fix", "lower")],
                    [kind |-> "tag", word |-> Word("bug", "lower")] >>
  /\ ret[1] = Returned(<<Word("bug", "lower")>>)

\* C33: post-processing returns as tags the union of the hashtags of the
\* raw text and the tags of the LLM, no two of them equal ignoring case, in
\* the order of first occurrence.
C33_TagsUnionedOnceInOrder ==
  (ret # Null /\ call.op = "post_process") =>
    /\ ~ret[1].raised
    /\ call.tags # Null
    /\ LET result == ret[1].value
           given == ExtractTags(call.text) \o call.tags[1]
       IN /\ { Lower(w) : w \in Range(result) }
               = { Lower(w) : w \in Range(given) }
          /\ \A i, j \in DOMAIN result :
               Lower(result[i]) = Lower(result[j]) => i = j
          /\ [i \in DOMAIN result |-> Lower(result[i])]
               = UniqueTags(given, {}, <<>>)

\* the wrapper has finished
RetryDone == ret[1].pc \in {"returned", "raised", "none"}

\* C36: the retry loop invokes a call that fails with a non-retryable error
\* no more and sleeps no more, and raises that error; a call that keeps
\* failing with retryable errors is invoked max_retries + 1 times and the
\* last error is raised; a call that succeeds is not invoked again and its
\* result is returned; the wrapper finishes only by returning the call's
\* result or by raising.
C36_RetryLoop ==
  LET f == ret[1]
      n == Len(f.log)
  IN /\ f.pc # "none"
     /\ Len(f.delays) \in {n - 1, n}
     /\ \A i \in 1..n :
          /\ (f.log[i].kind # "ok" /\ ~f.log[i].retryable) =>
               /\ i = n
               /\ f.pc = "raised"
               /\ Len(f.delays) = n - 1
               /\ \A j \in 1..(n - 1) : f.log[j].retryable
          /\ f.log[i].kind = "ok" =>
               /\ i = n
               /\ f.pc = "returned"
     /\ (RetryDone /\ \A i \in 1..n : f.log[i].retryable) =>
          /\ n = call.max_retries + 1
          /\ f.pc = "raised"
          /\ Len(f.delays) = call.max_retries
     /\ f.pc = "returned" => (n >= 1 /\ f.log[n].kind = "ok")
     /\ f.pc = "raised" => (n >= 1 /\ f.log[n].kind # "ok")
     /\ n <= call.max_retries + 1

\* every attempt has failed with a retryable error and the last one is raised
C36_Witness ==
  /\ ret[1].pc = "raised"
  /\ call.max_retries = RetryLimit
  /\ Len(ret[1].log) = RetryLimit + 1
  /\ \A i \in 1..Len(ret[1].log) : ret[1].log[i].retryable

\* C37: the delay before the retry that follows failed attempt n (from 0)
\* is base_delay * 2^n, or the larger of that and the error's retry-after
\* hint when it carries one; with the same hint on both errors a delay is
\* never shorter than the one before it.
C37_Backoff ==
  LET f == ret[1]
  IN /\ \A i \in 1..Len(f.delays) :
          LET exp == call.base_delay * (2 ^ (i - 1))
              hint == f.log[i].retry_after
          IN /\ hint = Null => f.delays[i] = exp
             /\ hint # Null =>
                  /\ f.delays[i] >= exp
                  /\ f.delays[i] >= hint[1]
                  /\ f.delays[i] \in {exp, hint[1]}
     /\ \A i \in 1..(Len(f.delays) - 1) :
          f.log[i].retry_after = f.log[i + 1].retry_after
            => f.delays[i] <= f.delays[i + 1]

\* a hint of 3 seconds has lengthened the first delay and not the third
C37_Witness ==
  /\ call.base_delay = 1
  /\ Len(ret[1].delays) >= 2
  /\ ret[1].log[1].retry_after = Some(3)
  /\ ret[1].log[2].retry_after = Some(3)
  /\ ret[1].delays[1] = 3
  /\ ret[1].delays[2] = 3

\* the stored metadata of a task: the populated fields and the extraction
\* time of its row, and the suggestions of its workbench row
StoredMetadata(tk, wk, t) ==
  [fields |-> IF t \in DOMAIN tk
              THEN [f \in MetadataFields \cup {"extracted_at", "requires_attention"}
                      |-> tk[t][f]]
              ELSE Null,
   suggestions |-> IF t \in DOMAIN wk THEN wk[t].metadata_suggestions ELSE Null]

\* the gateway's enrich call raises on this answer of the provider
EnrichCallRaises(answer) == answer.kind = "error" \/ answer.text = <<>>

\* C34: a run issues the gateway's extract call only when its own enrich
\* call has returned, and holds the returned text from then on; when enrich
\* raises the run ends without an extract call and no metadata field and no
\* suggestion of any task is written.
C34_ExtractOnlyAfterEnrich ==
  [][\A r \in RunIds :
       /\ (runs'[r].pc = "extract_wait" /\ runs[r].pc # "extract_wait") =>
            /\ runs[r].pc = "enrich_wait"
            /\ runs'[r].enriched # Null
            /\ \E a \in ScopeEnrichAnswers(runs[r].ct.user_input) :
                 /\ ~EnrichCallRaises(a)
                 /\ EnrichReturns(r, a)
       /\ runs'[r].pc \in {"extract_wait", "populated"} => runs'[r].enriched # Null
       /\ (runs'[r].resp # Null /\ runs[r].resp = Null) =>
            (runs[r].pc = "extract_wait" /\ runs[r].enriched # Null)
       /\ \A a \in ScopeEnrichAnswers(runs[r].ct.user_input) :
            (EnrichCallRaises(a) /\ EnrichReturns(r, a)) =>
              /\ runs'[r].pc \in {"failed", "raised"}
              /\ runs'[r].resp = Null
              /\ \A t \in TaskIds :
                   StoredMetadata(tasks', wbs', t) = StoredMetadata(tasks, wbs, t)
  ]_vars

\* the enrich call of a run has raised on a task that holds the metadata of
\* an earlier run, and the run has ended without an extraction answer
C34_Witness ==
  \E r \in RunIds :
    /\ runs[r].pc = "failed"
    /\ runs[r].enriched = Null
    /\ runs[r].resp = Null
    /\ runs[r].gateway # Null
    /\ Stored(runs[r].task)
    /\ tasks[runs[r].task].extracted_at # Null
    /\ wbs[runs[r].task].metadata_suggestions # Null

\* C35: no reader sees the metadata of a run (its extraction time and its
\* suggestions) stored on the task while the task is still processing with
\* no enriched text.
C35_RunWritesAtomic ==
  \A r \in RunIds :
    (runs[r].pc = "populated" /\ Stored(runs[r].task)) =>
      ~ /\ wbs[runs[r].task].enrichment_status = "processing"
        /\ tasks[runs[r].task].enriched_text = Null
        /\ tasks[runs[r].task].extracted_at = Some(r)
        /\ wbs[runs[r].task].metadata_suggestions
             = Some(SerializeMetadataSuggestions(runs[r].resp[1]))

\* C39: in every reachable state of create, the pipeline runs and retry, a
\* task whose enrichment_status is completed has an enriched text, an
\* extraction time and metadata suggestions.
C39_CompletedHasResults ==
  \A t \in TaskIds :
    (Stored(t) /\ wbs[t].enrichment_status = "completed") =>
      /\ tasks[t].enriched_text # Null
      /\ tasks[t].extracted_at # Null
      /\ wbs[t].metadata_suggestions # Null

\* C40: the stored deadline_parsed is the parse of the stored deadline_text:
\* it is null when the text is null, and it is what the parser returns for
\* the text when the parser returns.
C40_ParsedFollowsText ==
  \A t \in TaskIds :
    Stored(t) =>
      LET text == tasks[t].deadline_text
          parsed == ParseDeadlineFromText(text, RefNow)
      IN /\ text = Null => tasks[t].deadline_parsed = Null
         /\ (text # Null /\ ~parsed.raised)
              => tasks[t].deadline_parsed = parsed.value

====
